---- MODULE Spec2Model ----
(***************************************************************************)
(* rbt.py: rsync based incremental backups.                                *)
(*                                                                         *)
(* The model covers the backup path of the program: the PID lock file      *)
(* (FileLock), the job (Backup.run), the rotation of the generation        *)
(* directories (Backup.rotate) and the batch loop of __main__ that runs    *)
(* every job inside "with FileLock(...)".  Each OS process running the     *)
(* program is one element of Procs; all of them work on the same target    *)
(* directory, hence on the same backup.lock and the same backup.<i>.       *)
(***************************************************************************)
EXTENDS Integers, Sequences, FiniteSets, TLC

\* ------------------------------------------------------------ bounds
\* Largest retention depth ("backups" option) explored.
MaxN == 3
\* Largest number of jobs (on the same target) one invocation runs.
MaxJobs == 2
\* The same two bounds for invocations that run at the same time.
RaceN == 1
RaceJobs == 1
\* Largest number of target directories in one section of the report.
MaxTargets == 3

\* ------------------------------------------------------------ processes
Procs == {"p1", "p2"}

\* os.getpid() of each process (two lengths, so that writes of different
\* lengths into the same file are covered).
Pid == [p \in Procs |-> IF p = "p1" THEN 7 ELSE 12]

\* Processes of the environment: one alive but owned by another user (a
\* signal to it is refused), one alive and owned by the same user (another
\* invocation at work on the target for as long as the model runs), and one
\* PID that belongs to no process.
EnvPids == [foreign |-> 3, busy |-> 4, gone |-> 5]

\* Name of the job ("name" option); the scenario of the spec uses db1.
JobName == "db1"

\* ------------------------------------------------------------ text of the lock file
DigitChar == <<"0", "1", "2", "3", "4", "5", "6", "7", "8", "9">>

\* str(n) for n >= 0: the decimal digits, most significant first.
RECURSIVE Str(_)
Str(n) == IF n < 10 THEN <<DigitChar[n + 1]>>
          ELSE Str(n \div 10) \o <<DigitChar[(n % 10) + 1]>>

DigitVal(c) == CHOOSE d \in 0..9 : DigitChar[d + 1] = c

IsDigit(c) == \E d \in 0..9 : DigitChar[d + 1] = c

RECURSIVE DigitsValue(_)
DigitsValue(s) == IF s = <<>> THEN 0
                  ELSE 10 * DigitsValue(SubSeq(s, 1, Len(s) - 1)) + DigitVal(s[Len(s)])

\* int(text): the number, or ValueError for the empty text and for text that
\* holds anything but digits.
ValueError == -1

ParseInt(s) == IF s = <<>> \/ \E i \in 1..Len(s) : ~IsDigit(s[i])
               THEN ValueError
               ELSE DigitsValue(s)

\* A write of text s at offset 0 of a file holding old: the first Len(s)
\* bytes are replaced, what lies behind them stays.
WriteAt0(s, old) == IF Len(s) >= Len(old) THEN s
                    ELSE s \o SubSeq(old, Len(s) + 1, Len(old))

\* The lock file: absent, or present with its text.
NoFile == [exists |-> FALSE, data |-> <<>>]

File(s) == [exists |-> TRUE, data |-> s]

\* ------------------------------------------------------------ text
\* Characters in the order of their code points (the ones the texts of the
\* model are made of).
UpperChars == <<"A", "B", "C", "D", "E", "F", "G", "H", "I", "J", "K", "L", "M",
                "N", "O", "P", "Q", "R", "S", "T", "U", "V", "W", "X", "Y", "Z">>

LowerChars == <<"a", "b", "c", "d", "e", "f", "g", "h", "i", "j", "k", "l", "m",
                "n", "o", "p", "q", "r", "s", "t", "u", "v", "w", "x", "y", "z">>

Alphabet == <<"\n", " ", "+", "-", ".", "/">> \o DigitChar \o <<":">>
            \o UpperChars \o LowerChars

CharRank(c) == CHOOSE i \in 1..Len(Alphabet) : Alphabet[i] = c

\* a < b for two texts, as str compares them.
RECURSIVE TextLess(_, _)
TextLess(a, b) ==
    IF b = <<>> THEN FALSE
    ELSE IF a = <<>> THEN TRUE
    ELSE IF a[1] # b[1] THEN CharRank(a[1]) < CharRank(b[1])
    ELSE TextLess(Tail(a), Tail(b))

\* str.lower()
LowerChar(c) == IF \E i \in 1..26 : UpperChars[i] = c
                THEN LowerChars[CHOOSE i \in 1..26 : UpperChars[i] = c]
                ELSE c

Lower(s) == [i \in 1..Len(s) |-> LowerChar(s[i])]

\* str.strip()
IsSpace(c) == c \in {" ", "\n"}

RECURSIVE Strip(_)
Strip(s) == IF s = <<>> THEN s
            ELSE IF IsSpace(s[1]) THEN Strip(Tail(s))
            ELSE IF IsSpace(s[Len(s)]) THEN Strip(SubSeq(s, 1, Len(s) - 1))
            ELSE s

\* str.split(":")
RECURSIVE Split(_)
Split(s) ==
    IF \A i \in 1..Len(s) : s[i] # ":" THEN <<s>>
    ELSE LET at == CHOOSE i \in 1..Len(s) : s[i] = ":" /\ \A j \in 1..(i - 1) : s[j] # ":"
         IN <<SubSeq(s, 1, at - 1)>> \o Split(SubSeq(s, at + 1, Len(s)))

\* ":".join(fields)
RECURSIVE Join(_)
Join(fields) == IF Len(fields) = 1 THEN fields[1]
                ELSE fields[1] \o <<":">> \o Join(Tail(fields))

\* The decimal digits of n in a field of width w, zero padded ("%0wd").
RECURSIVE Pad(_, _)
Pad(n, w) == IF w = 0 THEN <<>>
             ELSE Pad(n \div 10, w - 1) \o <<DigitChar[(n % 10) + 1]>>

\* An optional text: None, or a str.
None == [some |-> FALSE, text |-> <<>>]

Some(s) == [some |-> TRUE, text |-> s]

\* ------------------------------------------------------------ time
\* datetime.datetime: naive, or aware with an offset from UTC in minutes.
Datetime(y, mo, d, h, mi, sec, us, aware, offset) ==
    [year |-> y, month |-> mo, day |-> d, hour |-> h, minute |-> mi,
     second |-> sec, microsecond |-> us, aware |-> aware, offset |-> offset]

\* None where a datetime is expected.
NoTime == Datetime(0, 0, 0, 0, 0, 0, 0, FALSE, 0)

\* datetime.date()
DateOf(dt) == <<dt.year, dt.month, dt.day>>

IsLeap(y) == (y % 4 = 0 /\ y % 100 # 0) \/ y % 400 = 0

DaysIn(y, mo) == IF mo = 2 THEN (IF IsLeap(y) THEN 29 ELSE 28)
                 ELSE IF mo \in {4, 6, 9, 11} THEN 30 ELSE 31

\* The fields datetime.datetime(...) accepts; it raises ValueError otherwise.
ValidFields(y, mo, d, h, mi, sec) ==
    /\ y \in 1..9999 /\ mo \in 1..12 /\ d \in 1..DaysIn(y, mo)
    /\ h \in 0..23 /\ mi \in 0..59 /\ sec \in 0..59

\* datetime.isoformat() of a naive datetime: the fraction is left out when
\* the microsecond is 0, and there is no zone.
IsoFormat(dt) ==
    Pad(dt.year, 4) \o <<"-">> \o Pad(dt.month, 2) \o <<"-">> \o Pad(dt.day, 2)
    \o <<"T">> \o Pad(dt.hour, 2) \o <<":">> \o Pad(dt.minute, 2)
    \o <<":">> \o Pad(dt.second, 2)
    \o (IF dt.microsecond = 0 THEN <<>> ELSE <<".">> \o Pad(dt.microsecond, 6))

\* micro() of parse_rfc3339
RECURSIVE micro(_)
micro(nano) == IF nano > 999999 THEN micro(nano \div 1000) ELSE nano

\* n digits of s from position i on.
DigitsAt(s, i, n) == i + n - 1 <= Len(s) /\ \A j \in i..(i + n - 1) : IsDigit(s[j])

CharAt(s, i, c) == i <= Len(s) /\ s[i] = c

\* Number of digits of s from position i on.
RECURSIVE DigitRun(_, _)
DigitRun(s, i) == IF i <= Len(s) /\ IsDigit(s[i]) THEN 1 + DigitRun(s, i + 1) ELSE 0

\* Length of the fraction group "." digits+ at position j (0: no group).
FracLen(s, j) == IF CharAt(s, j, ".") THEN DigitRun(s, j + 1) ELSE 0

\* Position of the zone group for a match that starts at i.
ZonePos(s, i) == IF FracLen(s, i + 19) > 0 THEN i + 20 + FracLen(s, i + 19) ELSE i + 19

\* The regular expression of parse_rfc3339 matches s at position i.
MatchAt(s, i) ==
    /\ DigitsAt(s, i, 4) /\ CharAt(s, i + 4, "-")
    /\ DigitsAt(s, i + 5, 2) /\ CharAt(s, i + 7, "-")
    /\ DigitsAt(s, i + 8, 2) /\ CharAt(s, i + 10, "T")
    /\ DigitsAt(s, i + 11, 2) /\ CharAt(s, i + 13, ":")
    /\ DigitsAt(s, i + 14, 2) /\ CharAt(s, i + 16, ":")
    /\ DigitsAt(s, i + 17, 2)
    /\ LET z == ZonePos(s, i)
       IN \/ CharAt(s, z, "Z")
          \/ /\ CharAt(s, z, "+") \/ CharAt(s, z, "-")
             /\ DigitsAt(s, z + 1, 2) /\ CharAt(s, z + 3, ":") /\ DigitsAt(s, z + 4, 2)

\* The outcome of a call: the exception it raised ("none": it returned) and
\* the value it returned.
Raise(e) == [err |-> e, value |-> NoTime]

Return(v) == [err |-> "none", value |-> v]

\* Position of the first match of the expression in dt (re.search).
FirstMatch(dt) == CHOOSE i \in 1..Len(dt) : MatchAt(dt, i) /\ \A j \in 1..(i - 1) : ~MatchAt(dt, j)

\* int() of the n digits of dt at offset off of the match at position at.
GroupInt(dt, at, off, n) == DigitsValue(SubSeq(dt, at + off, at + off + n - 1))

\* The offset from UTC of the zone group at position z, in minutes:
\* timedelta(hours=int(group 10 or "0"), minutes=int(group 11 or "0")); the
\* sign of the group is part of the hours only.
ZoneMinutes(dt, z) ==
    IF CharAt(dt, z, "Z") THEN 0
    ELSE 60 * (IF CharAt(dt, z, "-") THEN -1 ELSE 1) * GroupInt(dt, z, 1, 2)
         + GroupInt(dt, z, 4, 2)

\* The datetime built from the groups of the match at position at, with a
\* fraction of f digits and the zone at position z.
FromGroups(dt, at, f, z) ==
    IF f = 0 THEN Raise("TypeError")
    ELSE IF ZoneMinutes(dt, z) \notin -1439..1439 THEN Raise("ValueError")
    ELSE IF ~ValidFields(GroupInt(dt, at, 0, 4), GroupInt(dt, at, 5, 2), GroupInt(dt, at, 8, 2),
                         GroupInt(dt, at, 11, 2), GroupInt(dt, at, 14, 2), GroupInt(dt, at, 17, 2))
    THEN Raise("ValueError")
    ELSE Return(Datetime(GroupInt(dt, at, 0, 4), GroupInt(dt, at, 5, 2), GroupInt(dt, at, 8, 2),
                         GroupInt(dt, at, 11, 2), GroupInt(dt, at, 14, 2), GroupInt(dt, at, 17, 2),
                         micro(GroupInt(dt, at, 20, f)), TRUE, ZoneMinutes(dt, z)))

\* parse_rfc3339(dt): re.search finds the first match; no match makes
\* parts None and parts.group raise AttributeError; a match without the
\* fraction makes int(None) raise TypeError; fields out of range make
\* datetime or timezone raise ValueError.
parse_rfc3339(dt) ==
    IF \A i \in 1..Len(dt) : ~MatchAt(dt, i) THEN Raise("AttributeError")
    ELSE FromGroups(dt, FirstMatch(dt), FracLen(dt, FirstMatch(dt) + 19),
                    ZonePos(dt, FirstMatch(dt)))

\* ------------------------------------------------------------ directories
\* Slot of backup.tmp among the slots backup.0 .. backup.N.
Tmp == -1

\* No directory under a name.
NoDir == -1

\* Directory identities available to the target.
MaxDirs == (MaxN + 1) + MaxJobs + 2

DirIds == 0..(MaxDirs - 1)

\* No completion record in a directory.
NoRecord == [name |-> "", run |-> <<"", 0>>, timestamp |-> <<>>, duration |-> 0]

\* rsync exit codes explored: success, "some files vanished", partial transfer.
RsyncCodes == {0, 24, 23}

\* rsync's exit code when the destination's parent directory is missing.
RsyncNoDest == 11

\* No exit code yet.
NoCode == -1

VARIABLES
    N,         \* the job's "backups" option (retention depth)
    lock,      \* target/backup.lock: NoFile or File(text)
    fdLinked,  \* per process: the file it opened for writing is still the one named backup.lock
    pc,        \* per process: position in the program
    batch,     \* per process: number of enabled jobs its configuration holds
    job,       \* per process: index of the job of the batch it is at
    acquired,  \* per process: FileLock.acquired of the current handle
    seen,      \* per process: pid read from the lock file
    probe,     \* per process: outcome of os.kill(pid, 0) in __enter__
    rc,        \* per process: rsync.returncode of the current run()
    k,         \* per process: position in the loop of rotate()
    exc,       \* per process: an exception is propagating out of run()
    fs,        \* slot (0..N, Tmp) -> directory identity or NoDir
    dirs,      \* directory identity -> its content
    nextId,    \* next unused directory identity
    before,    \* per process: fs and dirs when the current run() began
    atRot,     \* per process: fs when the current rotate() began
    renames,   \* per process: renames done by the current run()
    recs,      \* per process: completion records written by the current run()
    recDir,    \* per process: directory the current run() wrote its record into
    seeded,    \* the target held generations of earlier runs when the first process started
    BaseDirList, \* get_backup_status: the target directories of the section
    now,         \* get_backup_status: datetime.datetime.now() of the call
    resultSet,   \* get_backup_status: the list it builds and returns
    StatusCodes, \* the global set of status labels observed
    raised,      \* get_backup_status: the exception that ended the call
    returned     \* get_backup_status has been called and has ended

vars == <<N, lock, fdLinked, pc, batch, job, acquired, seen, probe, rc, k, exc,
          fs, dirs, nextId, before, atRot, renames, recs, recDir, seeded,
          BaseDirList, now, resultSet, StatusCodes, raised, returned>>

statusVars == <<BaseDirList, now, resultSet, StatusCodes, raised, returned>>

lockVars == <<lock, fdLinked, acquired, seen, probe>>

dirVars == <<fs, dirs, nextId>>

runVars == <<rc, k, exc, before, atRot, renames, recs, recDir>>

Slots == (0..N) \cup {Tmp}

\* A process that is running: launched and neither finished, killed nor
\* ended by an uncaught exception.
Ended == {"idle", "done", "dead", "crashed"}

Alive(p) == pc[p] \notin Ended

\* os.kill(pid, 0): delivered, refused (EPERM) or no such process (ESRCH).
KillResult(pid) ==
    IF pid = EnvPids.busy \/ \E q \in Procs : Pid[q] = pid /\ Alive(q) THEN "ok"
    ELSE IF pid = EnvPids.foreign THEN "EPERM"
    ELSE "ESRCH"

\* ------------------------------------------------------------ initial states
EmptyDir == [files |-> FALSE, tree |-> "none", completed |-> NoRecord]

\* datetime.datetime.now() at the time a run writes its record: the runs of
\* the model take place on the first of January 2024, at different times;
\* the first job of a batch ends on a full second.
RunTime(p, j) == Datetime(2024, 1, 1, IF p = "p1" THEN 2 ELSE 3, 30, j,
                          IF j = 1 THEN 0 ELSE 250000, FALSE, 0)

\* The same for the run that left the generations the target starts with.
PriorTime == Datetime(2023, 12, 31, 2, 30, 1, 250000, FALSE, 0)

\* time.time() - start of a run, in whole seconds.
RunSeconds == 12

\* A generation left by earlier runs.
SeedDir(i) == [files |-> TRUE, tree |-> "seed",
               completed |-> IF i = 0 THEN [name |-> JobName, run |-> <<"prior", 0>>,
                                            timestamp |-> IsoFormat(PriorTime),
                                            duration |-> RunSeconds]
                             ELSE NoRecord]

\* The lock file before any process of the model runs: absent, empty (a
\* writer died between truncating and writing), unparsable, the PID of a
\* process that is gone, the PID of a live process of another user, the PID
\* of a live process of the same user.
InitLocks == {NoFile, File(<<>>), File(<<"x">>), File(Str(EnvPids.gone)),
              File(Str(EnvPids.foreign)), File(Str(EnvPids.busy))}

NoSnapshot == [fs |-> <<>>, dirs |-> <<>>]

InitWith(locks, depths, jobs) ==
    /\ N \in depths
    /\ batch \in [Procs -> jobs]
    /\ lock \in locks
    /\ fdLinked = [p \in Procs |-> TRUE]
    /\ pc = [p \in Procs |-> "idle"]
    /\ job = [p \in Procs |-> 0]
    /\ acquired = [p \in Procs |-> FALSE]
    /\ seen = [p \in Procs |-> 0]
    /\ probe = [p \in Procs |-> "none"]
    /\ rc = [p \in Procs |-> NoCode]
    /\ k = [p \in Procs |-> 0]
    /\ exc = [p \in Procs |-> FALSE]
    /\ \E populated \in BOOLEAN :
          /\ seeded = populated
          /\ fs = [s \in Slots |-> IF populated /\ s # Tmp THEN s ELSE NoDir]
          /\ dirs = [d \in DirIds |-> IF populated /\ d <= N THEN SeedDir(d) ELSE EmptyDir]
          /\ nextId = IF populated THEN N + 1 ELSE 0
    /\ before = [p \in Procs |-> NoSnapshot]
    /\ atRot = [p \in Procs |-> <<>>]
    /\ renames = [p \in Procs |-> 0]
    /\ recs = [p \in Procs |-> 0]
    /\ recDir = [p \in Procs |-> NoDir]

\* No status report has been asked for.
StatusIdle ==
    /\ BaseDirList = <<>>
    /\ now = NoTime
    /\ resultSet = <<>>
    /\ StatusCodes = {}
    /\ raised = "none"
    /\ returned = FALSE

Init == InitWith(InitLocks, 1..RaceN, 1..RaceJobs) /\ StatusIdle

InitSerial == InitWith(InitLocks, 1..MaxN, 1..MaxJobs) /\ StatusIdle

\* ------------------------------------------------------------ FileLock
\* The program is started.
Launch(p) ==
    /\ pc[p] = "idle"
    /\ pc' = [pc EXCEPT ![p] = "enter"]
    /\ job' = [job EXCEPT ![p] = 1]
    /\ UNCHANGED <<N, batch, seeded, statusVars, lockVars, dirVars, runVars>>

\* The program is started while no other invocation is running.
LaunchAlone(p) ==
    /\ \A q \in Procs \ {p} : ~Alive(q)
    /\ Launch(p)

\* FileLock(...) is built (acquired = False) and __enter__ tests
\* os.path.exists(self.name).
Exists(p) ==
    /\ pc[p] = "enter"
    /\ pc' = [pc EXCEPT ![p] = IF lock.exists THEN "read" ELSE "open"]
    /\ UNCHANGED <<N, batch, seeded, statusVars, job, lockVars, dirVars, runVars>>

\* pid = int(open(self.name, "r").read()): a missing file raises
\* FileNotFoundError, which nothing catches; ValueError falls through to the
\* acquisition.
Read(p) ==
    /\ pc[p] = "read"
    /\ IF ~lock.exists
       THEN /\ pc' = [pc EXCEPT ![p] = "crashed"]
            /\ seen' = seen
       ELSE IF ParseInt(lock.data) = ValueError
       THEN /\ pc' = [pc EXCEPT ![p] = "open"]
            /\ seen' = seen
       ELSE /\ pc' = [pc EXCEPT ![p] = "probe"]
            /\ seen' = [seen EXCEPT ![p] = ParseInt(lock.data)]
    /\ UNCHANGED <<N, batch, seeded, statusVars, job, lock, fdLinked, acquired, probe, dirVars, runVars>>

\* Mutant of ProbeCaught: the except clause returns instead of passing, so
\* that no failed probe leads to the acquisition.
ProbeCaughtNone(result) == FALSE

\* The except clause of the probe: which outcomes of os.kill are caught and
\* fall through to the acquisition ("except OSError" catches every errno).
ProbeCaught(result) == result \in {"ESRCH", "EPERM"}

\* os.kill(pid, 0): delivered, __enter__ returns without acquiring; an
\* OSError falls through to the acquisition.
Probe(p) ==
    /\ pc[p] = "probe"
    /\ probe' = [probe EXCEPT ![p] = KillResult(seen[p])]
    /\ pc' = [pc EXCEPT ![p] = IF ProbeCaught(KillResult(seen[p])) THEN "open" ELSE "body"]
    /\ UNCHANGED <<N, batch, seeded, statusVars, job, lock, fdLinked, acquired, seen, dirVars, runVars>>

\* open(self.name, "w+"): creates the file or truncates the existing one.
Open(p) ==
    /\ pc[p] = "open"
    /\ lock' = File(<<>>)
    /\ fdLinked' = [fdLinked EXCEPT ![p] = TRUE]
    /\ pc' = [pc EXCEPT ![p] = "write"]
    /\ UNCHANGED <<N, batch, seeded, statusVars, job, acquired, seen, probe, dirVars, runVars>>

\* fh.write(str(os.getpid())), acquired = True, and the close that flushes
\* the text to the file the handle was opened on.
Write(p) ==
    /\ pc[p] = "write"
    /\ lock' = IF fdLinked[p] /\ lock.exists THEN File(WriteAt0(Str(Pid[p]), lock.data))
               ELSE lock
    /\ acquired' = [acquired EXCEPT ![p] = TRUE]
    /\ pc' = [pc EXCEPT ![p] = "body"]
    /\ UNCHANGED <<N, batch, seeded, statusVars, job, fdLinked, seen, probe, dirVars, runVars>>

\* ------------------------------------------------------------ Backup.run
\* Values of the per-run variables outside run().
ResetRun(p) ==
    /\ rc' = [rc EXCEPT ![p] = NoCode]
    /\ k' = [k EXCEPT ![p] = 0]
    /\ exc' = [exc EXCEPT ![p] = FALSE]
    /\ before' = [before EXCEPT ![p] = NoSnapshot]
    /\ atRot' = [atRot EXCEPT ![p] = <<>>]
    /\ renames' = [renames EXCEPT ![p] = 0]
    /\ recs' = [recs EXCEPT ![p] = 0]
    /\ recDir' = [recDir EXCEPT ![p] = NoDir]

\* The body of the with statement: "continue" when the lock was not
\* acquired, backup.run() otherwise.
Body(p) ==
    /\ pc[p] = "body"
    /\ pc' = [pc EXCEPT ![p] = IF acquired[p] THEN "mkdirs" ELSE "exit"]
    /\ before' = [before EXCEPT ![p] = IF acquired[p] THEN [fs |-> fs, dirs |-> dirs]
                                       ELSE NoSnapshot]
    /\ UNCHANGED <<N, batch, seeded, statusVars, job, lockVars, dirVars, rc, k, exc, atRot, renames, recs, recDir>>

\* A directory without entries.
IsEmptyDir(d) == ~dirs[d].files /\ dirs[d].completed = NoRecord

\* Mutant of LatestSlot: latest_dir names backup.1.
LatestSlotOne == 0 + 1

\* backup.latest_dir and backup.target_dir, as slots.
LatestSlot == 0

TargetSlot == N

\* Mutant of Missing: the loop that creates the missing backup.<idx> is
\* left out, only backup.N/files is created.
MissingNone == {}

\* The slots among backup.0 .. backup.(N-1) that are no directory.
Missing == {i \in 0..(N - 1) : fs[i] = NoDir}

Rank(i, S) == Cardinality({j \in S : j < i})

\* run() up to the start of rsync: os.makedirs of every backup.<idx>,
\* idx < N, that is no directory, and of backup.N/files.
Mkdirs(p) ==
    /\ pc[p] = "mkdirs"
    /\ LET stage == fs[TargetSlot] = NoDir
           fresh == Cardinality(Missing) + (IF stage THEN 1 ELSE 0)
           made  == [s \in Slots |->
                        IF s \in Missing THEN nextId + Rank(s, Missing)
                        ELSE IF s = TargetSlot /\ stage THEN nextId + Cardinality(Missing)
                        ELSE fs[s]]
       IN /\ nextId + fresh <= MaxDirs
          /\ fs' = made
          /\ dirs' = [dirs EXCEPT ![made[TargetSlot]].files = TRUE]
          /\ nextId' = nextId + fresh
    /\ pc' = [pc EXCEPT ![p] = "rsync"]
    /\ UNCHANGED <<N, batch, seeded, statusVars, job, lockVars, runVars>>

\* Mutant of RsyncOk: a partial transfer (23) is taken as success too.
RsyncOkLoose(code) == code \in {0, 23, 24}

\* The exit codes run() takes as success.
RsyncOk(code) == code \in {0, 24}

\* subprocess.run(rsync ...) into backup.N/files, and the test of its
\* return code: rotate() on success, return otherwise.
Rsync(p) ==
    /\ pc[p] = "rsync"
    /\ IF fs[TargetSlot] = NoDir
       THEN /\ rc' = [rc EXCEPT ![p] = RsyncNoDest]
            /\ dirs' = dirs
       ELSE \E code \in RsyncCodes :
            /\ rc' = [rc EXCEPT ![p] = code]
            /\ dirs' = [dirs EXCEPT ![fs[TargetSlot]].tree =
                                        IF code = 23 THEN "partial" ELSE "sync"]
    /\ pc' = [pc EXCEPT ![p] = IF RsyncOk(rc'[p]) THEN "ren_tmp" ELSE "exit"]
    /\ UNCHANGED <<N, batch, seeded, statusVars, job, lockVars, fs, nextId, k, exc, before, atRot, renames, recs, recDir>>

\* ------------------------------------------------------------ Backup.rotate
\* os.rename(src, dst) of directories succeeds when src exists and dst is
\* absent or an empty directory (which it replaces); it raises otherwise.
CanRename(src, dst) ==
    /\ fs[src] # NoDir
    /\ fs[dst] = NoDir \/ IsEmptyDir(fs[dst])

Renamed(src, dst) == [fs EXCEPT ![dst] = fs[src], ![src] = NoDir]

\* One os.rename of rotate(): on success the rotation goes on at position
\* to (loop position kk), on failure the exception leaves run().
RenameStep(p, src, dst, to, kk) ==
    /\ IF CanRename(src, dst)
       THEN /\ fs' = Renamed(src, dst)
            /\ renames' = [renames EXCEPT ![p] = @ + 1]
            /\ pc' = [pc EXCEPT ![p] = to]
            /\ k' = [k EXCEPT ![p] = kk]
            /\ exc' = exc
       ELSE /\ fs' = fs
            /\ renames' = renames
            /\ pc' = [pc EXCEPT ![p] = "exit"]
            /\ k' = k
            /\ exc' = [exc EXCEPT ![p] = TRUE]
    /\ UNCHANGED <<N, batch, seeded, statusVars, job, lockVars, dirs, nextId, rc, before, recs, recDir>>

\* os.rename(self.target_dir, temp_dir)
RenTmp(p) ==
    /\ pc[p] = "ren_tmp"
    /\ atRot' = [atRot EXCEPT ![p] = fs]
    /\ RenameStep(p, TargetSlot, Tmp, "shift", 1)

\* Mutant of ShiftIdx: the loop runs from the head to the tail, range(0, N).
ShiftIdxAscending(n, kk) == kk - 1

\* range(self.backups - 1, -1, -1): the index of the kk-th pass of the loop.
ShiftIdx(n, kk) == n - kk

\* Destination of the rename of backup.<idx> in the loop.
ShiftDst(idx) == idx + 1

\* One pass of the loop: os.rename(backup.<idx>, backup.<idx+1>)
Shift(p) ==
    /\ pc[p] = "shift"
    /\ atRot' = atRot
    /\ RenameStep(p, ShiftIdx(N, k[p]), ShiftDst(ShiftIdx(N, k[p])),
                  IF k[p] = N THEN "ren_last" ELSE "shift", k[p] + 1)

\* os.rename(temp_dir, self.latest_dir)
RenLast(p) ==
    /\ pc[p] = "ren_last"
    /\ atRot' = atRot
    /\ RenameStep(p, Tmp, LatestSlot, "record", 0)

\* Mutant of RecordSlot: the record goes to self.target_dir.completed.
RecordSlotStaging == TargetSlot

\* Slot whose "completed" file run() writes: self.latest_dir.completed.
RecordSlot == LatestSlot

\* Mutant of RecordOf: the record names the target instead of the job.
RecordOfTarget(p) == [name |-> "target", run |-> <<p, job[p]>>,
                      timestamp |-> IsoFormat(RunTime(p, job[p])), duration |-> RunSeconds]

\* The completion record of run(): name, timestamp (isoformat() of now())
\* and duration, with the run that writes it.
RecordOf(p) == [name |-> JobName, run |-> <<p, job[p]>>,
                timestamp |-> IsoFormat(RunTime(p, job[p])), duration |-> RunSeconds]

\* open(self.latest_dir.completed, "w+") and the write of the record; a
\* missing backup.0 raises FileNotFoundError.
Record(p) ==
    /\ pc[p] = "record"
    /\ IF fs[RecordSlot] = NoDir
       THEN /\ exc' = [exc EXCEPT ![p] = TRUE]
            /\ UNCHANGED <<dirs, recs, recDir>>
       ELSE /\ dirs' = [dirs EXCEPT ![fs[RecordSlot]].completed = RecordOf(p)]
            /\ recs' = [recs EXCEPT ![p] = @ + 1]
            /\ recDir' = [recDir EXCEPT ![p] = fs[RecordSlot]]
            /\ exc' = exc
    /\ pc' = [pc EXCEPT ![p] = "exit"]
    /\ UNCHANGED <<N, batch, seeded, statusVars, job, lockVars, fs, nextId, rc, k, before, atRot, renames>>

\* ------------------------------------------------------------ FileLock.__exit__ and the batch loop
\* Mutant of Releases: __exit__ unlinks the lock file whoever holds it.
ReleasesAlways(p) == TRUE

\* Whether __exit__ unlinks the lock file.
Releases(p) == acquired[p]

\* __exit__: os.unlink of the lock file when this handle acquired it (a
\* missing file raises FileNotFoundError before acquired is reset); then an
\* exception of run() goes on to end the process, and otherwise the loop
\* takes the next job or the program ends.
Exit(p) ==
    /\ pc[p] = "exit"
    /\ IF Releases(p) /\ ~lock.exists
       THEN /\ pc' = [pc EXCEPT ![p] = "crashed"]
            /\ job' = job
            /\ UNCHANGED <<lock, fdLinked, acquired>>
       ELSE /\ lock' = IF Releases(p) THEN NoFile ELSE lock
            /\ fdLinked' = IF Releases(p) THEN [q \in Procs |-> pc[q] # "write"] ELSE fdLinked
            /\ acquired' = [acquired EXCEPT ![p] = FALSE]
            /\ IF exc[p]
               THEN pc' = [pc EXCEPT ![p] = "crashed"] /\ job' = job
               ELSE IF job[p] < batch[p]
                    THEN pc' = [pc EXCEPT ![p] = "enter"] /\ job' = [job EXCEPT ![p] = @ + 1]
                    ELSE pc' = [pc EXCEPT ![p] = "done"] /\ job' = job
    /\ seen' = [seen EXCEPT ![p] = 0]
    /\ probe' = [probe EXCEPT ![p] = "none"]
    /\ ResetRun(p)
    /\ UNCHANGED <<N, batch, seeded, statusVars, dirVars>>

\* The process is terminated by a signal, wherever it is.
Kill(p) ==
    /\ Alive(p)
    /\ pc' = [pc EXCEPT ![p] = "dead"]
    /\ acquired' = [acquired EXCEPT ![p] = FALSE]
    /\ fdLinked' = [fdLinked EXCEPT ![p] = TRUE]
    /\ seen' = [seen EXCEPT ![p] = 0]
    /\ probe' = [probe EXCEPT ![p] = "none"]
    /\ ResetRun(p)
    /\ UNCHANGED <<N, batch, seeded, statusVars, job, lock, dirVars>>

\* ------------------------------------------------------------ status of the targets
\* A status plugin: absent, or the file "status" with the exit code and the
\* standard output of "/bin/sh status".
NoPlugin == [present |-> FALSE, code |-> 0, out |-> <<>>]

Plugin(c, out) == [present |-> TRUE, code |-> c, out |-> out]

\* A target directory as get_backup_status reads it: its path, the marker
\* file ".ignore", the plugin, backup.0/completed and the file ".comment".
Target(server, ignore, plugin, completed, comment) ==
    [server |-> server, ignore |-> ignore, plugin |-> plugin,
     completed |-> completed, comment |-> comment]

\* "/backup/"
BackupRoot == <<"/", "b", "a", "c", "k", "u", "p", "/">>

\* ServerName = server[8:]
ServerName(server) == SubSeq(server, 9, Len(server))

\* StatusText
StatusText(code) == IF code = 0 THEN "OK" ELSE IF code = 1 THEN "ERR" ELSE "UNK"

\* str(datetime.timedelta(seconds=n)) for less than a day: h:mm:ss
TimedeltaStr(n) == Str(n \div 3600) \o <<":">> \o Pad((n \div 60) % 60, 2)
                   \o <<":">> \o Pad(n % 60, 2)

\* datetime.datetime.fromtimestamp(n), the local time being UTC: the civil
\* date of the day number and the time of day.
FromTimestamp(n) ==
    LET z   == (n \div 86400) + 719468
        era == z \div 146097
        doe == z - era * 146097
        yoe == (doe - doe \div 1460 + doe \div 36524 - doe \div 146096) \div 365
        doy == doe - (365 * yoe + yoe \div 4 - yoe \div 100)
        mp  == (5 * doy + 2) \div 153
        d   == doy - (153 * mp + 2) \div 5 + 1
        mo  == IF mp < 10 THEN mp + 3 ELSE mp - 9
        y   == yoe + era * 400 + (IF mo <= 2 THEN 1 ELSE 0)
        t   == n % 86400
    IN Datetime(y, mo, d, t \div 3600, (t \div 60) % 60, t % 60, 0, FALSE, 0)

\* Mutant of read_comment: the text of the file is returned as it is read.
read_commentRaw(t) == IF ~t.comment.exists THEN None ELSE Some(t.comment.data)

\* read_comment(basedir)
read_comment(t) == IF ~t.comment.exists THEN None ELSE Some(Strip(t.comment.data))

\* One element of resultSet: (code, ServerName, mtime, duration, comment).
Row(code, name, mtime, duration, comment) ==
    [code |-> code, name |-> name, mtime |-> mtime, duration |-> duration,
     comment |-> comment]

NoRow == Row(0, <<>>, NoTime, <<>>, None)

\* What the loop body does with one target: "continue" without a record,
\* a record appended with its label added to StatusCodes, or an exception.
Skipped == [kind |-> "skip", row |-> NoRow, err |-> "none"]

Appended(row) == [kind |-> "append", row |-> row, err |-> "none"]

Raised(e) == [kind |-> "raise", row |-> NoRow, err |-> e]

\* Number of names the plugin's output is unpacked into: stat, fmt,
\* mtime_str, duration, comment.
PluginFields == 5

\* The exit codes of a plugin whose output is taken as the target's status.
PluginCodes == {0, 1, 2}

\* Lines 354-368: the output of the plugin is stripped, split on every ":"
\* and unpacked (ValueError when the number of fields differs); the format
\* field selects how the time is read.
PluginOutcome(t, nw) ==
    LET fields == Split(Strip(t.plugin.out))
    IN IF Len(fields) # PluginFields THEN Raised("ValueError")
       ELSE LET fmt      == Lower(fields[2])
                duration == fields[4]
                comment  == Some(fields[5])
                name     == ServerName(t.server)
            IN IF fmt = <<"i", "s", "o">>
               THEN LET m == parse_rfc3339(fields[3])
                    IN IF m.err # "none" THEN Raised(m.err)
                       ELSE Appended(Row(t.plugin.code, name, m.value, duration, comment))
               ELSE IF fmt = <<"e", "p", "o", "c", "h">>
               THEN IF ParseInt(fields[3]) = ValueError THEN Raised("ValueError")
                    ELSE Appended(Row(t.plugin.code, name, FromTimestamp(ParseInt(fields[3])),
                                      duration, comment))
               ELSE Appended(Row(1, name, nw, duration, comment))

\* read_completed(server) and lines 370-396: no file gives UNK, a record
\* of today OK, any other record ERR.
CompletedOutcome(t, nw) ==
    LET name == ServerName(t.server)
    IN IF t.completed = NoRecord
       THEN Appended(Row(2, name, NoTime, <<"n", "/", "a">>, read_comment(t)))
       ELSE LET m == parse_rfc3339(t.completed.timestamp)
            IN IF m.err # "none" THEN Raised(m.err)
               ELSE Appended(Row(IF DateOf(m.value) = DateOf(nw) THEN 0 ELSE 1, name, m.value,
                                 TimedeltaStr(t.completed.duration), read_comment(t)))

\* The body of the loop of get_backup_status for one target.
ServerOutcome(t, nw) ==
    IF t.ignore THEN Skipped
    ELSE IF t.plugin.present /\ t.plugin.code \in PluginCodes THEN PluginOutcome(t, nw)
    ELSE CompletedOutcome(t, nw)

\* The loop over BaseDirList: the list and the labels so far, up to the
\* first exception.
RECURSIVE Scan(_, _, _, _)
Scan(list, nw, rows, codes) ==
    IF list = <<>> THEN [raised |-> "none", rows |-> rows, codes |-> codes]
    ELSE LET o == ServerOutcome(Head(list), nw)
         IN IF o.kind = "raise" THEN [raised |-> o.err, rows |-> rows, codes |-> codes]
            ELSE IF o.kind = "skip" THEN Scan(Tail(list), nw, rows, codes)
            ELSE Scan(Tail(list), nw, Append(rows, o.row),
                      codes \cup {StatusText(o.row.code)})

\* a < b for two elements of resultSet: tuples compare by code, then by
\* ServerName (the names of one section differ, so that no later field is
\* compared).
RowLess(a, b) == a.code < b.code \/ (a.code = b.code /\ TextLess(a.name, b.name))

\* Mutant of SortsBefore: the list is sorted without reverse=True.
SortsBeforeAscending(b, a) == RowLess(b, a)

\* Whether b goes before a in resultSet.sort(reverse=True).
SortsBefore(b, a) == RowLess(a, b)

RECURSIVE Insert(_, _)
Insert(r, sorted) ==
    IF sorted = <<>> THEN <<r>>
    ELSE IF SortsBefore(r, Head(sorted)) THEN <<r>> \o sorted
    ELSE <<Head(sorted)>> \o Insert(r, Tail(sorted))

\* resultSet.sort(reverse=True)
RECURSIVE Sort(_)
Sort(rows) == IF rows = <<>> THEN <<>>
              ELSE Insert(rows[Len(rows)], Sort(SubSeq(rows, 1, Len(rows) - 1)))

\* get_backup_status(list) called at time nw with the labels codes in
\* StatusCodes: the sorted list is returned unless a target raised.
StatusCall(list, nw, codes) ==
    /\ BaseDirList' = list
    /\ now' = nw
    /\ LET r == Scan(list, nw, <<>>, codes)
       IN /\ raised' = r.raised
          /\ resultSet' = IF r.raised = "none" THEN Sort(r.rows) ELSE <<>>
          /\ StatusCodes' = r.codes
    /\ returned' = TRUE
    /\ UNCHANGED <<N, lock, fdLinked, pc, batch, job, acquired, seen, probe, rc, k, exc,
                   fs, dirs, nextId, before, atRot, renames, recs, recDir, seeded>>

\* ------------------------------------------------------------ status reports
\* Path of the i-th target directory of the section "s".
ServerPath(i) == BackupRoot \o <<"s", "/", LowerChars[i]>>

\* datetime.datetime.now() of a status report: later on the day of the
\* runs, or on the day after.
ReportTimes == {Datetime(2024, 1, 1, 9, 0, 0, 500000, FALSE, 0),
                Datetime(2024, 1, 2, 9, 0, 0, 500000, FALSE, 0)}

\* Timestamps found in completed files: the two forms run() writes (with
\* and without microseconds), and forms with a zone: without a fraction,
\* with a fraction on the day of the runs, and on the day before.
WithZone == IsoFormat(Datetime(2024, 1, 1, 2, 30, 1, 250000, FALSE, 0)) \o <<"Z">>

Stale == IsoFormat(Datetime(2023, 12, 31, 23, 59, 59, 500000, FALSE, 0))
         \o <<"+", "0", "2", ":", "0", "0">>

NoFraction == IsoFormat(Datetime(2024, 1, 1, 0, 0, 0, 0, FALSE, 0)) \o <<"Z">>

Timestamps == {IsoFormat(RunTime("p1", 1)), IsoFormat(RunTime("p1", 2)),
               NoFraction, WithZone, Stale}

CompletedFile(ts) == [name |-> JobName, run |-> <<"prior", 0>>, timestamp |-> ts,
                      duration |-> RunSeconds]

CompletedFiles == {NoRecord} \cup {CompletedFile(ts) : ts \in Timestamps}

\* Lines printed by status plugins.
Ok == <<"O", "K">>

Twelve == <<"1", "2">>

Fine == <<"f", "i", "n", "e">>

Epoch == <<"1", "7", "0", "4", "0", "7", "6", "2", "0", "1">>

\* ERR:iso:2024-01-01T00:00:00Z:12:5:disk full
ScenarioLine == Join(<<<<"E", "R", "R">>, <<"i", "s", "o">>, NoFraction, Twelve, <<"5">>,
                       <<"d", "i", "s", "k", " ", "f", "u", "l", "l">>>>) \o <<"\n">>

\* OK:iso:2024-01-01T02:30:01.250000Z:12:fine
IsoLine == Join(<<Ok, <<"I", "S", "O">>, WithZone, Twelve, Fine>>) \o <<"\n">>

\* OK:iso:20240101:12:fine
IsoPlainLine == Join(<<Ok, <<"i", "s", "o">>, <<"2", "0", "2", "4", "0", "1", "0", "1">>,
                       Twelve, Fine>>) \o <<"\n">>

\* OK:epoch:1704076201:12:fine
EpochLine == Join(<<Ok, <<"e", "p", "o", "c", "h">>, Epoch, Twelve, Fine>>) \o <<"\n">>

\* OK:epoch:1704076201:12:5:fine (with the size field)
EpochSizeLine == Join(<<Ok, <<"e", "p", "o", "c", "h">>, Epoch, Twelve, <<"5">>, Fine>>)
                 \o <<"\n">>

\* OK:unix:1704076201:12:fine
OtherLine == Join(<<Ok, <<"u", "n", "i", "x">>, Epoch, Twelve, Fine>>) \o <<"\n">>

PluginLines == {ScenarioLine, IsoLine, IsoPlainLine, EpochLine, EpochSizeLine, OtherLine}

\* Exit codes of the plugins explored.
PluginExits == 0..3

Plugins == {NoPlugin} \cup {Plugin(c, out) : c \in PluginExits, out \in PluginLines}

\* The file ".comment": absent, or " db host\n".
CommentFiles == {NoFile, File(<<" ", "d", "b", " ", "h", "o", "s", "t", "\n">>)}

\* The calls on one target directory, of every kind.
OneTargetLists ==
    {<<Target(ServerPath(1), ig, pl, co, cm)>> :
        ig \in BOOLEAN, pl \in Plugins, co \in CompletedFiles, cm \in CommentFiles}

\* The kinds of target a section is made of: a record of the day, an older
\* record, no record, a plugin, an ignored target.
SectionKinds ==
    {Target(<<>>, FALSE, NoPlugin, co, NoFile) : co \in {NoRecord, CompletedFile(WithZone),
                                                          CompletedFile(Stale)}}
    \cup {Target(<<>>, FALSE, Plugin(1, EpochLine), NoRecord, NoFile),
          Target(<<>>, TRUE, NoPlugin, NoRecord, NoFile)}

\* The ways to name n directories of a section.
Namings(n) == {f \in [1..n -> 1..MaxTargets] : \A i, j \in 1..n : i # j => f[i] # f[j]}

\* The calls on a section: up to MaxTargets directories, in any order of
\* os.listdir, each of any kind.
SectionLists ==
    UNION {{[i \in 1..n |-> [kinds[i] EXCEPT !.server = ServerPath(names[i])]] :
               names \in Namings(n), kinds \in [1..n -> SectionKinds]} : n \in 0..MaxTargets}

\* A status report starts: the section, the clock, and the labels the
\* sections before it left in StatusCodes.
InitStatusWith(lists, labels) ==
    /\ InitWith({NoFile}, {1}, {1})
    /\ nextId = 0
    /\ BaseDirList \in lists
    /\ now \in ReportTimes
    /\ resultSet = <<>>
    /\ StatusCodes \in labels
    /\ raised = "none"
    /\ returned = FALSE

\* One directory of any kind, in the first section of a report or after one
\* that left the label OK.
InitStatus == InitStatusWith(OneTargetLists, {{}, {"OK"}})

\* A section of several directories, the first of its report.
InitSection == InitStatusWith(SectionLists, {{}})

\* get_backup_status(BaseDirList)
GetBackupStatus ==
    /\ ~returned
    /\ StatusCall(BaseDirList, now, StatusCodes)

\* The target of the backup jobs as a status report finds it: no marker, no
\* plugin, no comment, and backup.0/completed as the runs left it.
TargetView ==
    Target(ServerPath(1), FALSE, NoPlugin,
           IF fs[0] = NoDir THEN NoRecord ELSE dirs[fs[0]].completed, NoFile)

\* "rbt status" on the target of the backup jobs, in a process of its own.
Report ==
    /\ ~returned
    /\ \E nw \in ReportTimes : StatusCall(<<TargetView>>, nw, {})

\* ------------------------------------------------------------ specifications
Step(p) ==
    \/ Exists(p)
    \/ Read(p)
    \/ Probe(p)
    \/ Open(p)
    \/ Write(p)
    \/ Body(p)
    \/ Mkdirs(p)
    \/ Rsync(p)
    \/ RenTmp(p)
    \/ Shift(p)
    \/ RenLast(p)
    \/ Record(p)
    \/ Exit(p)
    \/ Kill(p)

\* Invocations of the program started at any time (separate OS processes).
Next == \E p \in Procs : Launch(p) \/ Step(p)

Spec == Init /\ [][Next]_vars

\* Invocations of the program started one after the other.
NextSerial == \E p \in Procs : LaunchAlone(p) \/ Step(p)

SpecSerial == InitSerial /\ [][NextSerial]_vars

\* Invocations one after the other, and one status report at any moment.
NextReport == (~returned /\ NextSerial) \/ Report

SpecReport == InitSerial /\ [][NextReport]_vars

\* The status report of one target directory, and of one section.
SpecStatus == InitStatus /\ [][GetBackupStatus]_vars

SpecSection == InitSection /\ [][GetBackupStatus]_vars

\* ------------------------------------------------------------ claims
\* The guarded region of a job: sync, rotation, completion record.
RegionPcs == {"mkdirs", "rsync", "ren_tmp", "shift", "ren_last", "record"}

Guarded(p) == acquired[p] /\ pc[p] \in RegionPcs

\* run() has returned or raised and __exit__ has not run yet.
RunEnded(p) == pc[p] = "exit" /\ rc[p] # NoCode

\* backup.0 .. backup.N all exist and backup.tmp does not.
Full(f) == (\A i \in 0..N : f[i] # NoDir) /\ f[Tmp] = NoDir

\* C1: two processes that enter FileLock on the same free or stale lock
\* never both acquire it: at no time are two processes inside the guarded
\* region of the target.
C1_SingleInstance ==
    \A p, q \in Procs : p # q => ~(Guarded(p) /\ Guarded(q))

\* C2: a lock file left by a terminated holder does not block the target:
\* an acquisition whose probe finds no such process returns acquired and
\* leaves the file holding the PID of the acquiring process.
C2_StaleLockReclaimed ==
    \A p \in Procs :
        (pc[p] = "body" /\ probe[p] = "ESRCH")
            => (acquired[p] /\ lock = File(Str(Pid[p])))

\* C2 witness: the holder died between two renames of its rotation and the
\* next process holds the lock.
C2_Witness ==
    \E p, q \in Procs :
        /\ pc[q] = "dead" /\ seen[p] = Pid[q] /\ fs[Tmp] # NoDir
        /\ pc[p] = "body" /\ probe[p] = "ESRCH"
        /\ acquired[p] /\ lock = File(Str(Pid[p]))

\* C3: a probe refused with an error other than "no such process" leaves
\* the lock alone: the handle does not go on to open the file, does not
\* acquire, and the file keeps the PID it held.
C3_RefusedProbeKeepsLock ==
    \A p \in Procs :
        probe[p] = "EPERM"
            => /\ pc[p] \notin {"open", "write"}
               /\ ~acquired[p]
               /\ lock = File(Str(seen[p]))

\* C4: on every exit from the with statement (run() returned after the
\* rotation or after a failed sync, the body skipped, an exception raised in
\* run()), __exit__ deletes the lock file if and only if the handle acquired
\* it: an acquiring handle leaves the file absent and acquired = False, any
\* other handle leaves the file as it is.
C4_ReleaseIffAcquired ==
    [][\A p \in Procs :
          (pc[p] = "exit" /\ pc'[p] \notin {"exit", "dead"})
              => IF acquired[p] THEN ~lock'.exists /\ ~acquired'[p]
                 ELSE lock' = lock /\ ~acquired'[p]]_vars

\* C4 witness: an exception raised by a rename of rotate() (backup.tmp was
\* left by a killed rotation) has ended the process, and the handle, which
\* had acquired the lock, has deleted the lock file.
C4_Witness ==
    \E p, q \in Procs :
        /\ pc[q] = "dead" /\ fs[Tmp] # NoDir
        /\ pc[p] = "crashed" /\ ~acquired[p] /\ ~lock.exists

\* The lock file holds the PID of p, which is alive, acquired the lock and
\* has not released it.
Owns(p) == Alive(p) /\ acquired[p] /\ lock = File(Str(Pid[p]))

\* C5: the lock file is neither unlinked nor overwritten while it holds the
\* PID of a live process that acquired it and has not released it: only
\* that process's own release changes it.
C5_OwnedLockUntouched ==
    [][\A p \in Procs :
          (Owns(p) /\ lock' # lock) => (pc[p] = "exit" /\ pc'[p] # "exit")]_vars

\* C6: a rotate() that starts with backup.0 .. backup.N present and
\* backup.tmp absent and whose renames all succeed ends with backup.0 ..
\* backup.N present and pairwise distinct, backup.tmp absent, backup.0 the
\* directory that was backup.N and backup.(i+1) the one that was backup.i.
C6_RotationPermutes ==
    \A p \in Procs :
        (pc[p] = "record" /\ Full(atRot[p]))
            => /\ Full(fs)
               /\ \A i, j \in 0..N : i # j => fs[i] # fs[j]
               /\ fs[0] = atRot[p][N]
               /\ \A i \in 0..(N - 1) : fs[i + 1] = atRot[p][i]

\* C6 witness: the second rotation in a row of one invocation has ended,
\* with a retention depth of at least 2.
C6_Witness ==
    \E p \in Procs :
        /\ pc[p] = "record" /\ job[p] = 2 /\ N >= 2 /\ Full(atRot[p])
        /\ fs[0] = atRot[p][N]

\* C7: between two renames of a rotate() that started with backup.0 ..
\* backup.N present and backup.tmp absent, backup.tmp exists, exactly one
\* of backup.0 .. backup.N is missing, and the destination of the next
\* rename is that missing name.
C7_OneGapMidRotation ==
    \A p \in Procs :
        (pc[p] \in {"shift", "ren_last"} /\ Full(atRot[p]))
            => /\ fs[Tmp] # NoDir
               /\ Cardinality({i \in 0..N : fs[i] = NoDir}) = 1
               /\ fs[IF pc[p] = "shift" THEN N - k[p] + 1 ELSE 0] = NoDir

\* C7 witness: a rotation is between the second and the third rename.
C7_Witness ==
    \E p \in Procs :
        /\ pc[p] = "shift" /\ k[p] = 2 /\ Full(atRot[p])
        /\ fs[Tmp] # NoDir /\ fs[N - 1] = NoDir

\* A slot below N holds the directory it held when run() began, with the
\* content it had.
Untouched(p, i) ==
    /\ fs[i] = before[p].fs[i]
    /\ fs[i] # NoDir => dirs[fs[i]] = before[p].dirs[fs[i]]

\* C8 as stated: after a sync that exits with a code other than 0 or 24,
\* run() has done no rename, written no record and left every slot
\* backup.0 .. backup.(N-1) as it was; after 0 or 24 it has rotated and
\* written the record.
C8_FailedSyncLeavesAll ==
    \A p \in Procs :
        RunEnded(p)
            => IF rc[p] \notin {0, 24}
               THEN /\ renames[p] = 0 /\ recs[p] = 0
                    /\ \A i \in 0..(N - 1) : Untouched(p, i)
               ELSE renames[p] = N + 2 /\ recs[p] = 1

\* C8 amended: after a sync that exits with a code other than 0 or 24,
\* run() has done no rename, written no record, left every directory that
\* existed among backup.0 .. backup.(N-1) as it was and created the missing
\* ones empty; after 0 or 24 it has started the rotation, and it has written
\* the record exactly when every rename succeeded.
C8_FailedSyncLeavesExisting ==
    \A p \in Procs :
        RunEnded(p)
            => IF rc[p] \notin {0, 24}
               THEN /\ renames[p] = 0 /\ recs[p] = 0 /\ ~exc[p]
                    /\ fs[Tmp] = before[p].fs[Tmp]
                    /\ \A i \in 0..(N - 1) :
                          IF before[p].fs[i] # NoDir THEN Untouched(p, i)
                          ELSE fs[i] # NoDir /\ dirs[fs[i]] = EmptyDir
               ELSE /\ atRot[p] # <<>>
                    /\ IF exc[p] THEN recs[p] = 0 /\ renames[p] < N + 2
                       ELSE recs[p] = 1 /\ renames[p] = N + 2

\* C8 witness: a run whose sync failed has returned on a target that holds
\* earlier generations and a completion record.
C8_Witness ==
    \E p \in Procs :
        /\ RunEnded(p) /\ rc[p] = 23 /\ renames[p] = 0
        /\ before[p].fs[0] # NoDir
        /\ dirs[fs[0]].completed # NoRecord
        /\ dirs[fs[N]].tree = "partial"

\* C9: a completion record is written only by the run() that has done all
\* N + 2 renames of its rotation after a sync that exited 0 or 24, has
\* written none yet, and writes it into the directory that is backup.0,
\* the one it staged, under the name of the job.
C9_RecordAfterRotation ==
    [][\A d \in DirIds :
          dirs'[d].completed # dirs[d].completed
              => \E p \in Procs :
                    /\ pc[p] = "record" /\ pc'[p] = "exit"
                    /\ rc[p] \in {0, 24}
                    /\ renames[p] = N + 2
                    /\ recs[p] = 0
                    /\ d = fs[0] /\ d = atRot[p][N]
                    /\ dirs'[d].completed.name = JobName]_vars

\* C9 witness: a run has written its record into the generation it
\* promoted.
C9_Witness ==
    \E p \in Procs :
        /\ RunEnded(p) /\ recs[p] = 1 /\ recDir[p] = fs[0]
        /\ dirs[fs[0]].completed = RecordOf(p)
        /\ dirs[fs[0]].tree = "sync"

\* The scenario of C10: retention depth 3, backup.0 .. backup.3 populated
\* before the run, and a run whose sync and rotation succeeded.
C10_Scenario(p) ==
    /\ N = 3 /\ RunEnded(p) /\ rc[p] \in {0, 24} /\ ~exc[p]
    /\ Full(before[p].fs)
    /\ \A i \in 0..3 : before[p].dirs[before[p].fs[i]].files

\* C10 as stated: after the run the directory that was backup.2 is under
\* no name of the target, the old backup.0 is backup.1, the staged
\* directory is backup.0 and backup.0/completed names db1.
C10_OldestGone ==
    \A p \in Procs :
        C10_Scenario(p)
            => /\ \A s \in Slots : fs[s] # before[p].fs[2]
               /\ fs[1] = before[p].fs[0]
               /\ fs[0] = before[p].fs[3]
               /\ dirs[fs[0]].completed.name = "db1"

\* C10 amended: after the run the directory that was backup.2 is backup.3,
\* the staging slot, with its content as it was; the old backup.0 is
\* backup.1, the staged directory is backup.0 and backup.0/completed names
\* db1.
C10_OldestBecomesStaging ==
    \A p \in Procs :
        C10_Scenario(p)
            => /\ fs[3] = before[p].fs[2]
               /\ dirs[fs[3]] = before[p].dirs[before[p].fs[2]]
               /\ fs[2] = before[p].fs[1]
               /\ fs[1] = before[p].fs[0]
               /\ fs[0] = before[p].fs[3]
               /\ dirs[fs[0]].tree = "sync"
               /\ dirs[fs[0]].completed.name = "db1"

\* C10 witness: the scenario has happened on the seeded generations.
C10_Witness ==
    \E p \in Procs :
        /\ C10_Scenario(p)
        /\ before[p].dirs[before[p].fs[2]].tree = "seed"
        /\ fs[3] = before[p].fs[2]
        /\ dirs[fs[0]].completed.name = "db1"

\* No job is running on the target: no process is inside run().
Quiet == \A p \in Procs : pc[p] \notin RegionPcs

\* Every run() so far has completed: no process was killed and none was
\* ended by an exception.
Undisturbed == \A p \in Procs : pc[p] \notin {"dead", "crashed"}

\* The target was empty when the first process started, and run() has been
\* called since.
RunsFromEmpty == ~seeded /\ nextId > 0 /\ Quiet /\ Undisturbed

\* C11 as stated: whenever no job is running, after completed run() calls
\* that started from an empty target, backup.0 .. backup.N all exist, each
\* of them contains a files/ subtree and backup.0 contains a completion
\* record.
C11_ChainPopulated ==
    RunsFromEmpty
        => /\ \A i \in 0..N : fs[i] # NoDir
           /\ \A i \in 0..N : dirs[fs[i]].files
           /\ dirs[fs[0]].completed # NoRecord

\* C11 amended: whenever no job is running, after completed run() calls
\* that started from an empty target, backup.0 .. backup.N all exist and
\* backup.tmp does not; each of them is either an empty directory or
\* contains the files/ subtree that a run staged in it; backup.0 contains a
\* completion record exactly when it is not empty, and then the subtree of
\* a successful sync.
C11_ChainContiguous ==
    RunsFromEmpty
        => /\ Full(fs)
           /\ \A i, j \in 0..N : i # j => fs[i] # fs[j]
           /\ \A i \in 0..N :
                 \/ dirs[fs[i]] = EmptyDir
                 \/ dirs[fs[i]].files /\ dirs[fs[i]].tree \in {"sync", "partial"}
           /\ dirs[fs[0]].completed # NoRecord <=> dirs[fs[0]].files
           /\ dirs[fs[0]].files => dirs[fs[0]].tree = "sync"

\* C11 witness: the runs of a batch have completed on a target that was
\* empty, one of them after a failed sync; backup.0 holds the record of a
\* run and an older generation is still an empty directory.
C11_Witness ==
    \E p \in Procs :
        /\ RunsFromEmpty /\ pc[p] = "done" /\ N >= 2
        /\ dirs[fs[0]].completed # NoRecord
        /\ dirs[fs[N]].tree = "partial"
        /\ dirs[fs[1]] = EmptyDir

\* The fields of the clock reading t, as a reader that takes the text for
\* UTC or for local time finds them.
SameClock(m, t) ==
    /\ DateOf(m) = DateOf(t)
    /\ <<m.hour, m.minute, m.second, m.microsecond>>
          = <<t.hour, t.minute, t.second, t.microsecond>>

\* C12: a status report made on the day a run synced, rotated and wrote
\* its record reads that record back: the call raises nothing and returns
\* one element, classified OK, with the name of the target and the time the
\* run wrote.
C12_RecordReadBack ==
    returned
        => \A p \in Procs, j \in 1..MaxJobs :
              (/\ BaseDirList[1].completed = [RecordOf(p) EXCEPT !.run = <<p, j>>,
                                                 !.timestamp = IsoFormat(RunTime(p, j))]
               /\ DateOf(now) = DateOf(RunTime(p, j)))
                  => /\ raised = "none"
                     /\ Len(resultSet) = 1
                     /\ resultSet[1].code = 0
                     /\ resultSet[1].name = ServerName(BaseDirList[1].server)
                     /\ SameClock(resultSet[1].mtime, RunTime(p, j))

\* The only target of the call, and the only element of the list returned.
TheTarget == BaseDirList[1]

TheRow == resultSet[1]

\* get_backup_status was called on one target that is not to be ignored.
Reported == returned /\ Len(BaseDirList) = 1 /\ ~TheTarget.ignore

\* The call returned one element for the target.
OneRow == raised = "none" /\ Len(resultSet) = 1

\* The date a timestamp text begins with.
TextDate(ts) == <<DigitsValue(SubSeq(ts, 1, 4)), DigitsValue(SubSeq(ts, 6, 7)),
                  DigitsValue(SubSeq(ts, 9, 10))>>

\* C13: a target without a plugin yields exactly one element: OK when
\* backup.0/completed exists and the date of its timestamp is the current
\* date, ERR when it exists with another date, UNK without a time when it
\* does not exist; a target with the ignore marker yields none.
C13_ClassifiedByRecord ==
    (returned /\ Len(BaseDirList) = 1 /\ ~TheTarget.plugin.present)
        => IF TheTarget.ignore THEN raised = "none" /\ resultSet = <<>>
           ELSE /\ OneRow
                /\ IF TheTarget.completed = NoRecord
                   THEN TheRow.code = 2 /\ TheRow.mtime = NoTime
                   ELSE IF TextDate(TheTarget.completed.timestamp) = DateOf(now)
                   THEN TheRow.code = 0
                   ELSE TheRow.code = 1

\* The lines that follow the plugin protocol: the fields joined by colons,
\* with or without the size field, the time in the format the line names.
WellFormedLines == {ScenarioLine, IsoLine, EpochLine, EpochSizeLine, OtherLine}

\* The format field of a plugin's line.
FormatOf(out) == Lower(Split(Strip(out))[2])

\* C14: a plugin that exits with c in {0, 1, 2} and prints a well-formed
\* line gives the target the classification c when the format is iso or
\* epoch, and ERR with the current time when it is anything else; the label
\* added to StatusCodes is the one of the classification in the element.
C14_PluginCodeKept ==
    (/\ Reported /\ TheTarget.plugin.present
     /\ TheTarget.plugin.code \in {0, 1, 2}
     /\ TheTarget.plugin.out \in WellFormedLines)
        => /\ OneRow
           /\ IF FormatOf(TheTarget.plugin.out) \in {<<"i", "s", "o">>, <<"e", "p", "o", "c", "h">>}
              THEN TheRow.code = TheTarget.plugin.code
              ELSE TheRow.code = 1 /\ TheRow.mtime = now
           /\ StatusText(TheRow.code) \in StatusCodes
           /\ StatusCodes \subseteq {"OK", StatusText(TheRow.code)}

\* C15: for a plugin that exits 1 and prints
\* ERR:iso:2024-01-01T00:00:00Z:12:5:disk full the call raises nothing and
\* the element has the classification ERR, the duration 12 and the comment
\* "disk full".
C15_ScenarioLineParsed ==
    (/\ Reported /\ TheTarget.plugin.present
     /\ TheTarget.plugin.code = 1
     /\ TheTarget.plugin.out = ScenarioLine)
        => /\ OneRow
           /\ TheRow.code = 1
           /\ TheRow.duration = <<"1", "2">>
           /\ TheRow.comment = Some(<<"d", "i", "s", "k", " ", "f", "u", "l", "l">>)

\* C16: when the plugin exits with a code outside {0, 1, 2} the target is
\* never classified OK on the strength of its completion record.
C16_PluginErrorSurfaced ==
    (/\ Reported /\ TheTarget.plugin.present
     /\ TheTarget.plugin.code \notin {0, 1, 2})
        => \A i \in 1..Len(resultSet) : resultSet[i].code # 0

\* C17: a job that is skipped on lock contention, fails its sync or fails
\* during the rotation does not stop the batch: when the with statement of
\* a job that is not the last of the batch is left (otherwise than by a
\* signal that kills the process), the lock it acquired is released and
\* the next job of the batch is attempted.
C17_BatchGoesOn ==
    [][\A p \in Procs :
          (pc[p] = "exit" /\ pc'[p] \notin {"exit", "dead"} /\ job[p] < batch[p])
              => /\ acquired[p] => ~lock'.exists
                 /\ pc'[p] = "enter"
                 /\ job'[p] = job[p] + 1]_vars

\* C18: in the list get_backup_status returns for a section, no record
\* classified OK precedes a record classified ERR or UNK.
C18_ProblemsFirst ==
    (returned /\ raised = "none")
        => \A i, j \in 1..Len(resultSet) :
              (i < j /\ resultSet[i].code = 0) => resultSet[j].code = 0

\* C18 witness: a section whose first directory is OK and whose later ones
\* are ERR and UNK has been classified, and the list returned holds the
\* three of them.
C18_Witness ==
    /\ returned /\ raised = "none"
    /\ Len(BaseDirList) = 3 /\ Len(resultSet) = 3
    /\ BaseDirList[1].completed = CompletedFile(WithZone) /\ DateOf(now) = TextDate(WithZone)
    /\ {resultSet[i].code : i \in 1..3} = {0, 1, 2}
    /\ resultSet[3].name = ServerName(BaseDirList[1].server)

\* The trimmed text of the file ".comment" of the explored targets.
TrimmedComment == <<"d", "b", " ", "h", "o", "s", "t">>

\* C19 as stated: for every reported target with a file ".comment" the
\* comment of the record is the trimmed text of that file, whatever the
\* classification came from.
C19_SidecarAlways ==
    (Reported /\ TheTarget.comment.exists /\ OneRow)
        => TheRow.comment = Some(TrimmedComment)

\* The classification of the target came from its plugin.
ByPlugin(t) == t.plugin.present /\ t.plugin.code \in {0, 1, 2}

\* C19 amended: for every reported target with a file ".comment" that is
\* classified from its completion record or from the absence of one (no
\* plugin, or a plugin that exits outside {0, 1, 2}), the comment of the
\* record is the trimmed text of that file; for a target classified by its
\* plugin it is the comment field of the plugin's line.
C19_SidecarUnlessPlugin ==
    (Reported /\ TheTarget.comment.exists /\ OneRow)
        => IF ByPlugin(TheTarget)
           THEN TheRow.comment = Some(Split(Strip(TheTarget.plugin.out))[5])
           ELSE TheRow.comment = Some(TrimmedComment)

\* C19 witness: a target with a file ".comment" and an older completion
\* record has been classified ERR, with the trimmed text as comment.
C19_Witness ==
    /\ Reported /\ OneRow /\ ~TheTarget.plugin.present
    /\ TheTarget.comment = File(<<" ", "d", "b", " ", "h", "o", "s", "t", "\n">>)
    /\ TheTarget.completed = CompletedFile(Stale)
    /\ TheRow.code = 1 /\ TheRow.comment = Some(TrimmedComment)

\* The state an interrupted rotation leaves: backup.tmp exists and exactly
\* one of backup.0 .. backup.N does not.
Partial(f) == f[Tmp] # NoDir /\ Cardinality({i \in 0..N : f[i] = NoDir}) = 1

\* C20: a run() that starts on a target in the state an interrupted
\* rotation left creates no directory and does no rename: when it ends,
\* every name of the target holds what it held and backup.tmp is unchanged.
C20_PartialStateKept ==
    \A p \in Procs :
        (RunEnded(p) /\ Partial(before[p].fs))
            => /\ renames[p] = 0
               /\ \A s \in Slots : fs[s] = before[p].fs[s]
               /\ dirs[fs[Tmp]] = before[p].dirs[fs[Tmp]]

====
